---- MODULE Spec2Model ----
(***************************************************************************)
(* A model of the Enigma machine of src/pynigma.py (classes Rotor, Stator  *)
(* and Enigma) built from the catalogs of src/enigmafactory.py.            *)
(*                                                                         *)
(* Characters are their code points (ord), so that ord(), chr() and        *)
(* str.upper() are modelled by the arithmetic the interpreter does: a      *)
(* Python str is a sequence of code points, "A" is <<65>>, "a" is <<97>>.  *)
(* Model names (dictionary keys) are TLA+ strings.                         *)
(***************************************************************************)
EXTENDS Integers, Sequences, FiniteSets, TLC

VARIABLES
    machine,  \* the Enigma instance: kind (its catalogs), rotors, etw, ukw, plugboard
    pre,      \* history: the Enigma instance as it was before the last call
    last,     \* history: the last call, its arguments, whether it raised, what it returned
    start,    \* history: the argument of the last successful setRotorsPositions, <<>> if the bank changed since
    keys,     \* history: letters encoded since the rotor positions were last assigned
    other,    \* a second Enigma instance, created from the same dictionaries
    dicts,    \* the catalog dictionaries as objects: what each holds, which each instance refers to
    before    \* history: which instance the last call was made on (0: none), and the other one before it

vars == <<machine, pre, last, start, keys, other, dicts, before>>

----------------------------------------------------------------------------
(* Bounds of the model. *)

\* encode is offered while at most MaxKeys letters (MaxBankKeys under SpecBank)
\* were encoded since the positions of the whole bank were last assigned
MaxKeys == 7
MaxBankKeys == 1

\* under SpecPlug encode is offered while at most MaxPlugKeys letters were encoded
MaxPlugKeys == 2

\* under SpecCustom encode is offered while at most MaxCustomKeys letters were encoded
MaxCustomKeys == 3

\* under SpecTwo encode is offered while at most MaxTwoKeys letters were encoded
\* by the two instances together, and addRotor while an instance holds fewer
\* than MaxTwoRotors rotors
MaxTwoKeys == 1

\* under SpecNotch encode is offered while at most MaxNotchKeys letters were encoded
MaxNotchKeys == 2
MaxTwoRotors == 1

----------------------------------------------------------------------------
(* string module and str methods *)

ascii_lowercase == [i \in 1..26 |-> 96 + i]
ascii_uppercase == [i \in 1..26 |-> 64 + i]
ascii_letters == ascii_lowercase \o ascii_uppercase

\* str.upper() of one character
Upper(c) == IF c \in 97..122 THEN c - 32 ELSE c

\* str.upper() of a string
UpperStr(s) == [i \in 1..Len(s) |-> Upper(s[i])]

\* Python's `s in t` for two strings: s is a substring of t
InStr(s, t) ==
    \/ Len(s) = 0
    \/ \E i \in 1..Len(t) :
          /\ i + Len(s) - 1 <= Len(t)
          /\ SubSeq(t, i, i + Len(s) - 1) = s

\* Python's `c in t` for a character c and a tuple or list t
InSeq(c, t) == \E i \in 1..Len(t) : t[i] = c

\* collections.deque.rotate(n): rotate n places to the right (to the left if n < 0)
Rotate(d, n) == [i \in 1..Len(d) |-> d[((i - 1 - n) % Len(d)) + 1]]

\* list.index / deque.index: position (from 0) of the first occurrence
Index(d, c) == (CHOOSE i \in 1..Len(d) : d[i] = c /\ \A j \in 1..(i - 1) : d[j] # c) - 1

----------------------------------------------------------------------------
(* The catalogs: EnigmaFactory._settings for "M3", "Rocket" and "Commercial", *)
(* and for "Custom" what CustomEnigmaFactory hands to Enigma after             *)
(* addCustomRotor("R", ...), addCustomUKW("B", ...) and addCustomUKW("N", ...) *)

Kinds == {"M3", "Rocket", "Commercial"}

\* the six models of EnigmaFactory._settings; of "Swiss", "M4" and "M4-Thin"
\* the reflectors are listed below, no machine of these models is built
FactoryModels == {"Commercial", "Rocket", "Swiss", "M3", "M4", "M4-Thin"}

rotors_map(kind) ==
    CASE kind = "M3" ->
           [I   |-> [alphabet |-> <<69,75,77,70,76,71,68,81,86,90,78,84,79,87,89,72,88,85,83,80,65,73,66,82,67,74>>, \* EKMFLGDQVZNTOWYHXUSPAIBRCJ
                     notch |-> << <<81>> >>],   \* Q
            II  |-> [alphabet |-> <<65,74,68,75,83,73,82,85,88,66,76,72,87,84,77,67,81,71,90,78,80,89,70,86,79,69>>, \* AJDKSIRUXBLHWTMCQGZNPYFVOE
                     notch |-> << <<69>> >>],   \* E
            III |-> [alphabet |-> <<66,68,70,72,74,76,67,80,82,84,88,86,90,78,89,69,73,87,71,65,75,77,85,83,81,79>>, \* BDFHJLCPRTXVZNYEIWGAKMUSQO
                     notch |-> << <<86>> >>]]   \* V
      [] kind = "Rocket" ->
           [I   |-> [alphabet |-> <<74,71,68,81,79,88,85,83,67,65,77,73,70,82,86,84,80,78,69,87,75,66,76,90,89,72>>, \* JGDQOXUSCAMIFRVTPNEWKBLZYH
                     notch |-> << <<90>> >>],   \* Z
            II  |-> [alphabet |-> <<78,84,90,80,83,70,66,79,75,77,87,82,67,74,68,73,86,76,65,69,89,85,88,72,71,81>>, \* NTZPSFBOKMWRCJDIVLAEYUXHGQ
                     notch |-> << <<90>> >>],
            III |-> [alphabet |-> <<74,86,73,85,66,72,84,67,68,89,65,75,69,81,90,80,79,83,71,88,78,82,77,87,70,76>>, \* JVIUBHTCDYAKEQZPOSGXNRMWFL
                     notch |-> << <<90>> >>]]
      [] kind = "Commercial" ->
           [IC   |-> [alphabet |-> <<68,77,84,87,83,73,76,82,85,89,81,78,75,70,69,74,67,65,90,66,80,71,88,79,72,86>>, \* DMTWSILRUYQNKFEJCAZBPGXOHV
                      notch |-> << <<90>> >>],
            IIC  |-> [alphabet |-> <<72,81,90,71,80,74,84,77,79,66,76,78,67,73,70,68,89,65,87,86,69,85,83,82,75,88>>, \* HQZGPJTMOBLNCIFDYAWVEUSRKX
                      notch |-> << <<90>> >>],
            IIIC |-> [alphabet |-> <<85,81,78,84,76,83,90,70,77,82,69,72,68,80,88,75,73,66,86,89,71,74,67,87,79,65>>, \* UQNTLSZFMREHDPXKIBVYGJCWOA
                      notch |-> << <<90>> >>]]
      [] kind = "Custom" ->
           [R |-> [alphabet |-> <<69,75,77,70,76,71,68,81,86,90,78,84,79,87,89,72,88,85,83,80,65,73,66,82,67,74>>, \* EKMFLGDQVZNTOWYHXUSPAIBRCJ
                   notch |-> << <<81>> >>]]

\* an empty mapping: a dict with no key
EmptyMap == [x \in {} |-> <<>>]

ukw_map(kind) ==
    CASE kind = "M3" ->
           [A |-> [alphabet |-> <<69,74,77,90,65,76,89,88,86,66,87,70,67,82,81,85,79,78,84,83,80,73,75,72,71,68>>], \* EJMZALYXVBWFCRQUONTSPIKHGD
            B |-> [alphabet |-> <<89,82,85,72,81,83,76,68,80,88,78,71,79,75,77,73,69,66,70,90,67,87,86,74,65,84>>], \* YRUHQSLDPXNGOKMIEBFZCWVJAT
            C |-> [alphabet |-> <<70,86,80,74,73,65,79,89,69,68,82,90,88,87,71,67,84,75,85,81,83,66,78,77,72,76>>]] \* FVPJIAOYEDRZXWGCTKUQSBNMHL
      [] kind = "Rocket" ->
           [UKW |-> [alphabet |-> <<81,89,72,79,71,78,69,67,86,80,85,90,84,70,68,74,65,88,87,77,75,73,83,82,66,76>>]] \* QYHOGNECVPUZTFDJAXWMKISRBL
      [] kind = "Swiss" ->
           ("UKW-K" :> [alphabet |-> <<73,77,69,84,67,71,70,82,65,89,83,81,66,90,88,87,76,72,75,68,86,85,80,79,74,78>>]) \* IMETCGFRAYSQBZXWLHKDVUPOJN
      [] kind = "M4" ->
           [A |-> [alphabet |-> <<69,74,77,90,65,76,89,88,86,66,87,70,67,82,81,85,79,78,84,83,80,73,75,72,71,68>>], \* EJMZALYXVBWFCRQUONTSPIKHGD
            B |-> [alphabet |-> <<89,82,85,72,81,83,76,68,80,88,78,71,79,75,77,73,69,66,70,90,67,87,86,74,65,84>>], \* YRUHQSLDPXNGOKMIEBFZCWVJAT
            C |-> [alphabet |-> <<70,86,80,74,73,65,79,89,69,68,82,90,88,87,71,67,84,75,85,81,83,66,78,77,72,76>>]] \* FVPJIAOYEDRZXWGCTKUQSBNMHL
      [] kind = "M4-Thin" ->
           ("A-Thin" :> [alphabet |-> <<69,78,75,81,65,85,89,87,74,73,67,79,80,66,76,77,68,88,90,86,70,84,72,82,71,83>>]) @@ \* ENKQAUYWJICOPBLMDXZVFTHRGS
           ("B-Thin" :> [alphabet |-> <<82,68,79,66,74,78,84,75,86,69,72,77,76,70,67,87,90,65,88,71,89,73,80,83,85,81>>])    \* RDOBJNTKVEHMLFCWZAXGYIPSUQ
      [] kind = "Commercial" -> EmptyMap
      [] kind = "Custom" ->
           [B |-> [alphabet |-> <<89,82,85,72,81,83,76,68,80,88,78,71,79,75,77,73,69,66,70,90,67,87,86,74,65,84>>], \* YRUHQSLDPXNGOKMIEBFZCWVJAT
            N |-> [alphabet |-> <<66,68,70,72,74,76,67,80,82,84,88,86,90,78,89,69,73,87,71,65,75,77,85,83,81,79>>]] \* BDFHJLCPRTXVZNYEIWGAKMUSQO

etw_map(kind) ==
    CASE kind = "Rocket" ->
           [ETW |-> [alphabet |-> <<81,87,69,82,84,90,85,73,79,65,83,68,70,71,72,74,75,80,89,88,67,86,66,78,77,76>>]] \* QWERTZUIOASDFGHJKPYXCVBNML
      [] OTHER -> EmptyMap

\* "max_rotors" of the settings: 3 for each of the three factory models;
\* CustomEnigmaFactory passes none, and 0 stands for None (both are false)
max_rotors(kind) == IF kind = "Custom" THEN 0 ELSE 3

----------------------------------------------------------------------------
(* class Rotor *)

\* Rotor._wrapOrd: the loops add and subtract 25
RECURSIVE _wrapOrd(_)
_wrapOrd(position) ==
    IF position < 0 THEN _wrapOrd(position + 25)
    ELSE IF position > 25 THEN _wrapOrd(position - 25)
    ELSE position

\* a step that moves the offset and leaves the wiring where it is
stepOffsetOnly(r, steps) ==
    [r EXCEPT !.position = @ + steps, !.stepped = TRUE]

\* Rotor.step(steps)
step(r, steps) ==
    [r EXCEPT !.position = @ + steps,
              !.alphabet = Rotate(@, -steps),
              !.stepped = TRUE]

\* Rotor.resetStep()
resetStep(r) == [r EXCEPT !.stepped = FALSE]

\* the checks of Rotor.__init__ pass and ord(position.upper()) is defined
RotorArgsValid(alphabet, notch, position) ==
    /\ Len(alphabet) = 26
    /\ \A i \in 1..26 : InSeq(ascii_uppercase[i], UpperStr(alphabet))
    /\ \A i \in 1..Len(notch) : InStr(notch[i], ascii_letters) /\ Len(notch[i]) = 1
    /\ ~(Len(position) > 1 \/ ~InStr(position, ascii_letters))
    /\ Len(position) = 1

\* Rotor.__init__ on valid arguments: the rotor is stepped into place by its
\* own starting offset, which step() adds to _position a second time
Rotor(alphabet, notch, position, model) ==
    LET r0 == [alphabet |-> UpperStr(alphabet),
               notch    |-> [i \in 1..Len(notch) |-> Upper(notch[i][1]) - 65],
               position |-> Upper(position[1]) - 65,
               model    |-> model,
               stepped  |-> FALSE]
    IN  [step(r0, r0.position) EXCEPT !.stepped = FALSE]

\* the index Rotor.left computes is one a deque of 26 accepts: 0 to 25, or
\* -26 to -1 which count from the end; any other raises IndexError
LeftIndexValid(letter) == (Upper(letter) - 65) \in -26..25

\* Rotor.left, for such an index
left(r, letter) == r.alphabet[((Upper(letter) - 65) % 26) + 1]

\* a right that looks the letter up in the wiring as it is at offset 0
rightAtRest(r, letter) == Index(Rotate(r.alphabet, r.position), letter) + 65

\* Rotor.right
right(r, letter) == Index(r.alphabet, letter) + 65

\* a getter that wraps the offset the way _wrapOrd does
positionWrapOrd(r) == _wrapOrd(r.position) + 65

\* Rotor.position (getter)
position(r) == (r.position % 26) + 65

\* a setter that adds the new offset to the stored one, as step() does
setPositionAdded(r, p) ==
    LET np == Upper(p) - 65
    IN  [r EXCEPT !.position = @ + np, !.alphabet = Rotate(@, -np)]

\* a setter that stores the new offset and leaves the wiring where it was
setPositionKeepWiring(r, p) == [r EXCEPT !.position = Upper(p) - 65]

\* Rotor.position (setter), after its validity check
setPosition(r, p) ==
    LET a1 == Rotate(r.alphabet, r.position)
        np == Upper(p) - 65
    IN  [r EXCEPT !.position = np, !.alphabet = Rotate(a1, -np)]

\* a test of the offset the rotor has now instead of the one it left
hit_notchAtCurrent(r) == InSeq(_wrapOrd(r.position), r.notch) /\ r.stepped

\* Rotor.hit_notch
hit_notch(r) == InSeq(_wrapOrd(r.position - 1), r.notch) /\ r.stepped

\* a test of the notch that does not look at the flag of the keypress
in_notchIgnoringFlag(r) == InSeq(_wrapOrd(r.position), r.notch)

\* Rotor.in_notch
in_notch(r) == InSeq(_wrapOrd(r.position), r.notch) /\ ~r.stepped

----------------------------------------------------------------------------
(* class Stator *)

\* None
None == [model |-> "None", alphabet |-> <<>>]

\* the checks of Stator.__init__ pass
StatorArgsValid(alphabet) ==
    /\ Len(alphabet) = 26
    /\ \A i \in 1..26 : InSeq(ascii_uppercase[i], UpperStr(alphabet))
    /\ \A i \in 1..26 :
          LET a == alphabet[i]
              s == [model |-> "", alphabet |-> alphabet]
          IN  right(s, left(s, a)) = a

\* Stator.__init__ on a valid alphabet: the letters are kept as given
Stator(alphabet, model) == [model |-> model, alphabet |-> alphabet]

----------------------------------------------------------------------------
(* class Enigma *)

\* a constructor that keeps the dictionaries it is handed
deepcopyNone(ref, fresh) == ref

\* copy.deepcopy of the dictionary object `ref`: the copy is the new object `fresh`
deepcopy(ref, fresh) == fresh

\* the dictionary objects after two instances were created from the
\* dictionaries of `kind`: object 1 is the one handed to Enigma.__init__,
\* objects 2 and 3 are the copies; held[i] is the object instance i refers to
createdFrom(kind) ==
    [store |-> <<kind, kind, kind>>,
     held  |-> <<deepcopy(1, 2), deepcopy(1, 3)>>]

\* Enigma.__init__ with the keyword arguments EnigmaFactory.createEnigma passes
Enigma(kind) ==
    [kind |-> kind, rotors |-> <<>>, etw |-> None, ukw |-> None, plugboard |-> <<>>]

\* what a call gives back: the instance after it, whether it raised, what it returned
Return(m, out) == [m |-> m, raised |-> FALSE, out |-> out]
Raise(m) == [m |-> m, raised |-> TRUE, out |-> <<>>]

\* Enigma.addRotor: the test of the maximum, then the construction of the
\* rotor, any exception of which (KeyError, ValueError, TypeError) is caught
TooManyRotors(m) ==
    max_rotors(m.kind) # 0 /\ Len(m.rotors) > max_rotors(m.kind)

\* an addRotor that has emptied the bank when the construction of the rotor fails
addRotorClearing(m, rotor, pos) ==
    IF TooManyRotors(m) THEN Raise(m)
    ELSE IF rotor \notin DOMAIN rotors_map(m.kind) THEN Raise([m EXCEPT !.rotors = <<>>])
    ELSE LET entry == rotors_map(m.kind)[rotor]
         IN  IF ~RotorArgsValid(entry.alphabet, entry.notch, pos) THEN Raise(m)
             ELSE Return([m EXCEPT !.rotors =
                            Append(@, Rotor(entry.alphabet, entry.notch, pos, rotor))],
                         <<>>)

addRotor(m, rotor, pos) ==
    IF TooManyRotors(m) THEN Raise(m)
    ELSE IF rotor \notin DOMAIN rotors_map(m.kind) THEN Raise(m)
    ELSE LET entry == rotors_map(m.kind)[rotor]
         IN  IF ~RotorArgsValid(entry.alphabet, entry.notch, pos) THEN Raise(m)
             ELSE Return([m EXCEPT !.rotors =
                            Append(@, Rotor(entry.alphabet, entry.notch, pos, rotor))],
                         <<>>)

\* Enigma.setRotors: the bank is emptied, then addRotor(r, "A") for each name;
\* the first addRotor that raises ends the call
RECURSIVE addRotorsFrom(_, _, _)
addRotorsFrom(m, names, i) ==
    IF i > Len(names) THEN Return(m, <<>>)
    ELSE LET a == addRotor(m, names[i], <<65>>)
         IN  IF a.raised THEN a ELSE addRotorsFrom(a.m, names, i + 1)

setRotors(m, names) == addRotorsFrom([m EXCEPT !.rotors = <<>>], names, 1)

\* Enigma.removeRotors
removeRotors(m) == Return([m EXCEPT !.rotors = <<>>], <<>>)

\* Enigma.setRotorsPositions: the length test, then rotor by rotor the test of
\* the character and the assignment; a bad character ends the call there
RECURSIVE setPositionsFrom(_, _, _)
setPositionsFrom(m, pos, x) ==
    IF x > Len(pos) THEN Return(m, <<>>)
    ELSE IF ~InStr(<<pos[x]>>, ascii_letters) THEN Raise(m)
    ELSE setPositionsFrom([m EXCEPT !.rotors[x] = setPosition(@, pos[x])], pos, x + 1)

\* a setRotorsPositions that takes a string shorter than the bank
setRotorsPositionsShorter(m, pos) ==
    IF Len(pos) > Len(m.rotors) THEN Raise(m)
    ELSE setPositionsFrom(m, pos, 1)

setRotorsPositions(m, pos) ==
    IF Len(pos) # Len(m.rotors) THEN Raise(m)
    ELSE setPositionsFrom(m, pos, 1)

\* Enigma.setUKW
setUKW(m, ukw) ==
    IF ukw \notin DOMAIN ukw_map(m.kind) THEN Raise(m)
    ELSE LET alphabet == ukw_map(m.kind)[ukw].alphabet
         IN  IF ~StatorArgsValid(alphabet) THEN Raise(m)
             ELSE Return([m EXCEPT !.ukw = Stator(alphabet, ukw)], <<>>)

\* Enigma.setETW
setETW(m, etw) ==
    IF etw \notin DOMAIN etw_map(m.kind) THEN Raise(m)
    ELSE LET alphabet == etw_map(m.kind)[etw].alphabet
         IN  IF ~StatorArgsValid(alphabet) THEN Raise(m)
             ELSE Return([m EXCEPT !.etw = Stator(alphabet, etw)], <<>>)

\* a setPlugboard that adds the pairs to those the plugboard has
setPlugboardExtending(m, plugs) ==
    IF Len(plugs) > 10 THEN Raise(m)
    ELSE IF \E i \in 1..Len(plugs) : Len(plugs[i]) # 2 THEN Raise(m)
    ELSE Return([m EXCEPT !.plugboard =
                   @ \o [i \in 1..Len(plugs) |-> <<plugs[i][1], plugs[i][2]>>]], <<>>)

\* a setPlugboard that allows 9 plugs at most
setPlugboardBelow10(m, plugs) ==
    IF Len(plugs) >= 10 THEN Raise(m)
    ELSE IF \E i \in 1..Len(plugs) : Len(plugs[i]) # 2 THEN Raise(m)
    ELSE Return([m EXCEPT !.plugboard =
                   [i \in 1..Len(plugs) |-> <<plugs[i][1], plugs[i][2]>>]], <<>>)

\* Enigma.setPlugboard
setPlugboard(m, plugs) ==
    IF Len(plugs) > 10 THEN Raise(m)
    ELSE IF \E i \in 1..Len(plugs) : Len(plugs[i]) # 2 THEN Raise(m)
    ELSE Return([m EXCEPT !.plugboard =
                   [i \in 1..Len(plugs) |-> <<plugs[i][1], plugs[i][2]>>]], <<>>)

\* Enigma._applyPlugboard: the first pair that holds c decides
RECURSIVE plugFrom(_, _, _)
plugFrom(plugboard, c, i) ==
    IF i > Len(plugboard) THEN c
    ELSE LET p == plugboard[i]
         IN  IF InSeq(c, p)
             THEN (IF c = p[1] THEN p[2] ELSE p[1])
             ELSE plugFrom(plugboard, c, i + 1)

\* a plugboard that leads from the first letter of a pair to the second only
_applyPlugboardOneWay(m, c) ==
    LET hits == {i \in 1..Len(m.plugboard) : m.plugboard[i][1] = c}
    IN  IF hits = {} THEN c
        ELSE m.plugboard[CHOOSE i \in hits : \A j \in hits : i <= j][2]

\* a plugboard on which the last pair that holds c decides
_applyPlugboardLastPair(m, c) ==
    LET hits == {i \in 1..Len(m.plugboard) : InSeq(c, m.plugboard[i])}
        p    == m.plugboard[CHOOSE i \in hits : \A j \in hits : i >= j]
    IN  IF hits = {} THEN c
        ELSE IF c = p[1] THEN p[2] ELSE p[1]

_applyPlugboard(m, c) == plugFrom(m.plugboard, c, 1)

\* Enigma._signalTravel
RECURSIVE leftFrom(_, _, _)
leftFrom(rotors, c, i) ==
    IF i < 1 THEN c ELSE leftFrom(rotors, left(rotors[i], c), i - 1)

RECURSIVE rightFrom(_, _, _)
rightFrom(rotors, c, i) ==
    IF i > Len(rotors) THEN c ELSE rightFrom(rotors, right(rotors[i], c), i + 1)

\* a path that meets the reflector before the rotors
_signalTravelReflectorFirst(m, c) ==
    LET c1 == IF m.etw # None THEN left(m.etw, c) ELSE c
        c2 == IF m.ukw # None THEN left(m.ukw, c1) ELSE c1
        c3 == leftFrom(m.rotors, c2, Len(m.rotors))
        c4 == rightFrom(m.rotors, c3, 1)
    IN  IF m.etw # None THEN right(m.etw, c4) ELSE c4

\* a path that turns round after the rotors without meeting the reflector
_signalTravelNoReflector(m, c) ==
    LET c1 == IF m.etw # None THEN left(m.etw, c) ELSE c
        c2 == leftFrom(m.rotors, c1, Len(m.rotors))
        c4 == rightFrom(m.rotors, c2, 1)
    IN  IF m.etw # None THEN right(m.etw, c4) ELSE c4

_signalTravel(m, c) ==
    LET c1 == IF m.etw # None THEN left(m.etw, c) ELSE c
        c2 == leftFrom(m.rotors, c1, Len(m.rotors))
        c3 == IF m.ukw # None THEN left(m.ukw, c2) ELSE c2
        c4 == rightFrom(m.rotors, c3, 1)
    IN  IF m.etw # None THEN right(m.etw, c4) ELSE c4

\* Enigma._computeRotations: x runs from len - 1 down to 1 (indices from 0)
RECURSIVE rotationsFrom(_, _)
rotationsFrom(rotors, x) ==
    IF x < 1 THEN rotors
    ELSE LET r1 == IF hit_notch(rotors[x + 1])
                   THEN [rotors EXCEPT ![x] = step(@, 1)]
                   ELSE rotors
             r2 == IF in_notch(r1[x + 1]) /\ x < Len(rotors) - 1
                   THEN [r1 EXCEPT ![x + 1] = step(@, 1), ![x] = step(@, 1)]
                   ELSE r1
         IN  rotationsFrom(r2, x - 1)

\* a pass that also pushes the last rotor once more when it has left a notch
_computeRotationsPushingLast(rotors) ==
    LET n == Len(rotors)
        r == rotationsFrom(rotors, n - 1)
    IN  IF hit_notch(rotors[n]) THEN [r EXCEPT ![n] = step(@, 1)] ELSE r

_computeRotations(rotors) == rotationsFrom(rotors, Len(rotors) - 1)

\* a loop body that handles the notches before the letter travels
keyPressRotationsFirst(m, c) ==
    LET n  == Len(m.rotors)
        rs == [i \in 1..n |-> resetStep(m.rotors[i])]
        m1 == [m EXCEPT !.rotors = _computeRotations([rs EXCEPT ![n] = step(@, 1)])]
    IN  [m |-> m1,
         raised |-> ~LeftIndexValid(_applyPlugboard(m1, c)),
         e |-> _applyPlugboard(m1, _signalTravel(m1, _applyPlugboard(m1, c)))]

\* the body of the loop of Enigma.encode for a letter c: the flags are
\* cleared, the last rotor steps, the letter travels, the notches are handled.
\* The plugboard may hand the first wheel a character whose index it does not
\* accept: the IndexError leaves the body there (every later wheel is handed
\* a letter of a wiring)
keyPress(m, c) ==
    LET n  == Len(m.rotors)
        rs == [i \in 1..n |-> resetStep(m.rotors[i])]
        m1 == [m EXCEPT !.rotors = [rs EXCEPT ![n] = step(@, 1)]]
        e1 == _applyPlugboard(m1, c)
        e2 == _signalTravel(m1, e1)
        e3 == _applyPlugboard(m1, e2)
    IN  IF ~LeftIndexValid(e1) THEN [m |-> m1, raised |-> TRUE, e |-> c]
        ELSE [m |-> [m1 EXCEPT !.rotors = _computeRotations(m1.rotors)],
              raised |-> FALSE, e |-> e3]

\* Enigma._formatOutput
\* " ".join(s[x : x + n] for x in range(0, len(s), n)), from index x on
RECURSIVE groupsFrom(_, _, _)
groupsFrom(s, x, n) ==
    IF x > Len(s) THEN <<>>
    ELSE LET hi  == IF x + n - 1 < Len(s) THEN x + n - 1 ELSE Len(s)
             sep == IF x > 1 THEN <<32>> ELSE <<>>
         IN  sep \o SubSeq(s, x, hi) \o groupsFrom(s, x + n, n)

\* groups of 4 letters, as the docstring of _formatOutput has it
_formatOutputBy4(raw) ==
    groupsFrom(SelectSeq(raw, LAMBDA c : c # 32), 1, 4)

_formatOutput(raw) ==
    groupsFrom(SelectSeq(raw, LAMBDA c : c # 32), 1, 5)

\* a loop that appends the characters that are no letters whatever format_output is
RECURSIVE encodeFromKeepAll(_, _, _, _, _)
encodeFromKeepAll(m, clean, i, encoded, format_output) ==
    IF i > Len(clean) THEN Return(m, encoded)
    ELSE LET c == clean[i]
         IN  IF ~InStr(<<c>>, ascii_letters)
             THEN encodeFromKeepAll(m, clean, i + 1, Append(encoded, c), format_output)
             ELSE IF Len(m.rotors) = 0 THEN Raise(m)
             ELSE LET k == keyPress(m, c)
                  IN  IF k.raised THEN Raise(k.m)
                      ELSE encodeFromKeepAll(k.m, clean, i + 1, Append(encoded, k.e),
                                             format_output)

\* a loop in which a character that is no letter steps the last rotor
RECURSIVE encodeFromSteppingAll(_, _, _, _, _)
encodeFromSteppingAll(m, clean, i, encoded, format_output) ==
    IF i > Len(clean) THEN Return(m, encoded)
    ELSE LET c == clean[i]
         IN  IF ~InStr(<<c>>, ascii_letters)
             THEN encodeFromSteppingAll(
                      [m EXCEPT !.rotors = [x \in 1..Len(m.rotors) |->
                           IF x = Len(m.rotors) THEN step(m.rotors[x], 1) ELSE m.rotors[x]]],
                      clean, i + 1,
                      IF format_output THEN encoded ELSE Append(encoded, c),
                      format_output)
             ELSE IF Len(m.rotors) = 0 THEN Raise(m)
             ELSE LET k == keyPress(m, c)
                  IN  IF k.raised THEN Raise(k.m)
                      ELSE encodeFromSteppingAll(k.m, clean, i + 1, Append(encoded, k.e),
                                                 format_output)

\* Enigma.encode: the three tests, the loop over the characters, the format
RECURSIVE encodeFrom(_, _, _, _, _)
encodeFrom(m, clean, i, encoded, format_output) ==
    IF i > Len(clean) THEN Return(m, encoded)
    ELSE LET c == clean[i]
         IN  IF ~InStr(<<c>>, ascii_letters)
             THEN encodeFrom(m, clean, i + 1,
                             IF format_output THEN encoded ELSE Append(encoded, c),
                             format_output)
             ELSE IF Len(m.rotors) = 0 THEN Raise(m)
             ELSE LET k == keyPress(m, c)
                  IN  IF k.raised THEN Raise(k.m)
                      ELSE encodeFrom(k.m, clean, i + 1, Append(encoded, k.e),
                                      format_output)

\* a test of the bank that never fails
NoRotorsNever(m) == FALSE

\* a test of the entry wheel that never fails
NoETWNever(m) == FALSE

NoRotors(m) == Len(m.rotors) = 0
NoUKW(m) == DOMAIN ukw_map(m.kind) # {} /\ m.ukw = None
NoETW(m) == DOMAIN etw_map(m.kind) # {} /\ m.etw = None

encode(m, clean, format_output) ==
    IF NoRotors(m) \/ NoUKW(m) \/ NoETW(m) THEN Raise(m)
    ELSE LET r == encodeFrom(m, clean, 1, <<>>, format_output)
         IN  IF r.raised \/ ~format_output THEN r
             ELSE Return(r.m, _formatOutput(r.out))

\* Enigma.rotors_position
rotors_position(m) == [i \in 1..Len(m.rotors) |-> position(m.rotors[i])]

\* Enigma.plugboard: the pairs as strings of two characters
plugboard(m) ==
    [i \in 1..Len(m.plugboard) |-> <<m.plugboard[i][1], m.plugboard[i][2]>>]

----------------------------------------------------------------------------
(* The calls, each over the arguments it is tried with *)

\* the letters of a text
Letters(text) == SelectSeq(text, LAMBDA c : InStr(<<c>>, ascii_letters))

Call(op, name, text, list, fmt, r) ==
    [op |-> op, name |-> name, text |-> text, list |-> list, fmt |-> fmt,
     raised |-> r.raised, out |-> r.out]

InitOf(kinds) ==
    /\ \E kind \in kinds : machine = Enigma(kind)
    /\ pre = machine
    /\ last = Call("__init__", "", <<>>, <<>>, FALSE, Return(machine, <<>>))
    /\ start = <<>>
    /\ keys = 0
    /\ other = machine
    /\ dicts = createdFrom(machine.kind)
    /\ before = [who |-> 0, idle |-> other]

AddRotor(names, positions) ==
    \E rotor \in names, pos \in positions :
        LET r == addRotor(machine, rotor, pos)
        IN  /\ machine' = r.m
            /\ pre' = machine
            /\ last' = Call("addRotor", rotor, pos, <<>>, FALSE, r)
            /\ start' = IF r.raised THEN start ELSE <<>>
            /\ keys' = keys
            /\ UNCHANGED <<other, dicts, before>>

SetRotors(lists) ==
    \E names \in lists :
        LET r == setRotors(machine, names)
        IN  /\ machine' = r.m
            /\ pre' = machine
            /\ last' = Call("setRotors", "", <<>>, names, FALSE, r)
            /\ start' = <<>>
            /\ keys' = 0
            /\ UNCHANGED <<other, dicts, before>>

RemoveRotors ==
    LET r == removeRotors(machine)
    IN  /\ machine' = r.m
        /\ pre' = machine
        /\ last' = Call("removeRotors", "", <<>>, <<>>, FALSE, r)
        /\ start' = <<>>
        /\ keys' = 0
        /\ UNCHANGED <<other, dicts, before>>

SetRotorsPositions(strings) ==
    \E pos \in strings :
        LET r == setRotorsPositions(machine, pos)
        IN  /\ machine' = r.m
            /\ pre' = machine
            /\ last' = Call("setRotorsPositions", "", pos, <<>>, FALSE, r)
            /\ start' = IF r.raised THEN (IF r.m = machine THEN start ELSE <<>>) ELSE pos
            /\ keys' = IF r.raised THEN keys ELSE 0
            /\ UNCHANGED <<other, dicts, before>>

SetUKW(names) ==
    \E ukw \in names :
        LET r == setUKW(machine, ukw)
        IN  /\ machine' = r.m
            /\ pre' = machine
            /\ last' = Call("setUKW", ukw, <<>>, <<>>, FALSE, r)
            /\ UNCHANGED <<start, keys, other, dicts, before>>

SetETW(names) ==
    \E etw \in names :
        LET r == setETW(machine, etw)
        IN  /\ machine' = r.m
            /\ pre' = machine
            /\ last' = Call("setETW", etw, <<>>, <<>>, FALSE, r)
            /\ UNCHANGED <<start, keys, other, dicts, before>>

SetPlugboard(lists) ==
    \E plugs \in lists :
        LET r == setPlugboard(machine, plugs)
        IN  /\ machine' = r.m
            /\ pre' = machine
            /\ last' = Call("setPlugboard", "", <<>>, plugs, FALSE, r)
            /\ UNCHANGED <<start, keys, other, dicts, before>>

Encode(texts, formats, maxKeys) ==
    \E clean \in texts, format_output \in formats :
        /\ keys + Len(Letters(clean)) <= maxKeys
        /\ LET r == encode(machine, clean, format_output)
           IN  /\ machine' = r.m
               /\ pre' = machine
               /\ last' = Call("encode", "", clean, <<>>, format_output, r)
               /\ keys' = IF r.raised THEN keys ELSE keys + Len(Letters(clean))
               /\ start' = start
               /\ UNCHANGED <<other, dicts, before>>

----------------------------------------------------------------------------
(* Spec: the three factory models, encoding texts with and without plugs *)

\* lists of names for setRotors
RotorLists(kind) ==
    CASE kind = "M3" -> {<<"I", "II", "III">>, <<"II">>}
      [] kind = "Rocket" -> {<<"I", "II">>}
      [] kind = "Commercial" -> {<<"IC", "IIC">>}

\* strings for setRotorsPositions: "AAV", "AZ", "Z"
PositionStrings == {<<65,65,86>>, <<65,90>>, <<90>>}

\* names for setUKW and setETW: the catalog's first and one that is in no catalog
UKWNames(kind) == IF kind = "Rocket" THEN {"UKW", "Z"} ELSE {"A", "Z"}
ETWNames == {"ETW", "A"}

\* plugboards for setPlugboard: "AB" "CD"; "AB" "CB" (B twice); "A" (too short)
PlugLists ==
    {<< <<65,66>>, <<67,68>> >>,
     << <<65,66>>, <<67,66>> >>,
     << <<65>> >>}

\* texts for encode: "", "A", "b C", "12 !", "HELLOXY"
Texts ==
    {<<>>, <<65>>, <<98,32,67>>, <<49,50,32,33>>,
     <<72,69,76,76,79,88,89>>}

Init == InitOf(Kinds)

Next ==
    \/ SetRotors(RotorLists(machine.kind))
    \/ RemoveRotors
    \/ SetRotorsPositions(PositionStrings)
    \/ SetUKW(UKWNames(machine.kind))
    \/ SetETW(ETWNames)
    \/ SetPlugboard(PlugLists)
    \/ Encode(Texts, BOOLEAN, MaxKeys)

Spec == Init /\ [][Next]_vars

----------------------------------------------------------------------------
(* SpecStep: an M3 and the keypresses of TestEnigma.test_double_stepping *)

\* lists of names for setRotors
StepLists == {<<"I", "II", "III">>, <<"III", "II", "I">>, <<"I", "II">>}

\* strings for setRotorsPositions: "ADT", "KDO", "AAT", "AZ"
StepStrings == {<<65,68,84>>, <<75,68,79>>, <<65,65,84>>, <<65,90>>}

InitStep == InitOf({"M3"})

NextStep ==
    \/ SetRotors(StepLists)
    \/ SetRotorsPositions(StepStrings)
    \/ SetUKW({"A"})
    \/ Encode({<<65>>}, {FALSE}, MaxKeys)

SpecStep == InitStep /\ [][NextStep]_vars

----------------------------------------------------------------------------
(* SpecBank: an M3 whose bank is filled rotor by rotor *)

\* rotor names for addRotor: one of the catalog and one that is in no catalog
AddNames == {"I", "ASD"}

\* start positions for addRotor: "A", "b", "3"
AddPositions == {<<65>>, <<98>>, <<51>>}

\* lists of names for setRotors
BankLists == {<<"I", "II">>, <<"I", "ASD">>}

\* strings for setRotorsPositions: "AZ", "C", "A3", ""
BankStrings == {<<65,90>>, <<67>>, <<65,51>>, <<>>}

InitBank == InitOf({"M3"})

NextBank ==
    \/ AddRotor(AddNames, AddPositions)
    \/ SetRotors(BankLists)
    \/ RemoveRotors
    \/ SetRotorsPositions(BankStrings)
    \/ SetUKW({"A"})
    \/ Encode({<<65>>}, {FALSE}, MaxBankKeys)

SpecBank == InitBank /\ [][NextBank]_vars

----------------------------------------------------------------------------
(* SpecPlug: an M3 with one rotor whose plugboard is set again and again *)

\* "AB" "CD" "EF" "GH" "IJ" "KL" "MN" "OP" "QR" "ST"
TenPlugs ==
    << <<65,66>>, <<67,68>>, <<69,70>>, <<71,72>>, <<73,74>>,
       <<75,76>>, <<77,78>>, <<79,80>>, <<81,82>>, <<83,84>> >>

\* plugboards for setPlugboard: none; "AB" "CD" "EF"; "ZY" "BX"; ten plugs;
\* eleven plugs; "A" "D" "E"; "ABS" "CDS" "EFS"; "AA"; "A1"
PlugboardLists ==
    {<<>>,
     << <<65,66>>, <<67,68>>, <<69,70>> >>,
     << <<90,89>>, <<66,88>> >>,
     TenPlugs,
     Append(TenPlugs, <<85,86>>),
     << <<65>>, <<68>>, <<69>> >>,
     << <<65,66,83>>, <<67,68,83>>, <<69,70,83>> >>,
     << <<65,65>> >>,
     << <<65,49>> >>}

InitPlug == InitOf({"M3"})

NextPlug ==
    \/ SetRotors({<<"II">>})
    \/ SetUKW({"A"})
    \/ SetPlugboard(PlugboardLists)
    \/ Encode({<<65>>, <<98>>}, {FALSE}, MaxPlugKeys)

SpecPlug == InitPlug /\ [][NextPlug]_vars

----------------------------------------------------------------------------
(* SpecCustom: a machine of CustomEnigmaFactory with one kind of rotor and *)
(* two reflectors, B an involution and N the wiring of a rotor            *)

InitCustom == InitOf({"Custom"})

NextCustom ==
    \/ SetRotors({<<"R">>, <<"R", "R">>})
    \/ SetRotorsPositions({<<65>>, <<65,90>>})
    \/ SetUKW({"B", "N", "Z"})
    \/ Encode({<<65>>}, {FALSE}, MaxCustomKeys)

SpecCustom == InitCustom /\ [][NextCustom]_vars

----------------------------------------------------------------------------
(* SpecTwo: two M3 instances created from the same dictionaries, called in  *)
(* any order, while the client changes the dictionaries it handed over     *)

\* instance i
Of(i) == IF i = 1 THEN machine ELSE other

\* a call on instance i gave r: the instance is what the call left, the other
\* instance is another object and stays
Called(i, op, name, text, list, fmt, r, letters) ==
    /\ machine' = IF i = 1 THEN r.m ELSE machine
    /\ other' = IF i = 2 THEN r.m ELSE other
    /\ pre' = Of(i)
    /\ last' = Call(op, name, text, list, fmt, r)
    /\ before' = [who |-> i, idle |-> Of(3 - i)]
    /\ keys' = keys + letters
    /\ UNCHANGED <<start, dicts>>

TwoAddRotor(i) ==
    /\ Len(Of(i).rotors) < MaxTwoRotors
    /\ Called(i, "addRotor", "I", <<65>>, <<>>, FALSE, addRotor(Of(i), "I", <<65>>), 0)

TwoSetRotors(i) ==
    \E names \in {<<"I">>} :
        Called(i, "setRotors", "", <<>>, names, FALSE, setRotors(Of(i), names), 0)

TwoSetRotorsPositions(i) ==
    \E pos \in {<<90>>} :
        Called(i, "setRotorsPositions", "", pos, <<>>, FALSE,
               setRotorsPositions(Of(i), pos), 0)

TwoSetUKW(i) ==
    \E ukw \in {"A"} :
        Called(i, "setUKW", ukw, <<>>, <<>>, FALSE, setUKW(Of(i), ukw), 0)

TwoSetETW(i) ==
    \E etw \in {"ETW"} :
        Called(i, "setETW", etw, <<>>, <<>>, FALSE, setETW(Of(i), etw), 0)

TwoSetPlugboard(i) ==
    \E plugs \in {<< <<65,66>> >>} :
        Called(i, "setPlugboard", "", <<>>, plugs, FALSE, setPlugboard(Of(i), plugs), 0)

TwoEncode(i) ==
    /\ keys + 1 <= MaxTwoKeys
    /\ LET r == encode(Of(i), <<65>>, FALSE)
       IN  Called(i, "encode", "", <<65>>, <<>>, FALSE, r, IF r.raised THEN 0 ELSE 1)

\* the client changes the dictionaries it created the instances from (the
\* _settings entry of the factory): they then hold the maps of `kind`. An
\* instance that refers to that very object has the changed maps
ChangeDictionaries ==
    \E kind \in {"M3", "Rocket"} :
        /\ kind # dicts.store[1]
        /\ dicts' = [dicts EXCEPT !.store[1] = kind]
        /\ machine' = [machine EXCEPT !.kind = dicts'.store[dicts.held[1]]]
        /\ other' = [other EXCEPT !.kind = dicts'.store[dicts.held[2]]]
        /\ pre' = machine
        /\ last' = Call("_settings", kind, <<>>, <<>>, FALSE, Return(machine, <<>>))
        /\ before' = [who |-> 0, idle |-> other]
        /\ UNCHANGED <<start, keys>>

InitTwo == InitOf({"M3"})

NextTwo ==
    \/ \E i \in {1, 2} : TwoAddRotor(i)
    \/ \E i \in {1, 2} : TwoSetRotors(i)
    \/ \E i \in {1, 2} : TwoSetRotorsPositions(i)
    \/ \E i \in {1, 2} : TwoSetUKW(i)
    \/ \E i \in {1, 2} : TwoSetETW(i)
    \/ \E i \in {1, 2} : TwoSetPlugboard(i)
    \/ \E i \in {1, 2} : TwoEncode(i)
    \/ ChangeDictionaries

SpecTwo == InitTwo /\ [][NextTwo]_vars

----------------------------------------------------------------------------
(* SpecNotch: an M3 filled with rotors I, some of them started at "v", or  *)
(* set to "AQA": a middle rotor that reports its notch letter Q            *)

InitNotch == InitOf({"M3"})

NextNotch ==
    \/ AddRotor({"I"}, {<<65>>, <<118>>})
    \/ RemoveRotors
    \/ SetRotorsPositions({<<65,81,65>>})
    \/ SetUKW({"A"})
    \/ Encode({<<65>>}, {FALSE}, MaxNotchKeys)

SpecNotch == InitNotch /\ [][NextNotch]_vars

----------------------------------------------------------------------------
(* Vocabulary of the properties *)

\* the last call was encode and it returned
Encoded == last.op = "encode" /\ ~last.raised

\* m is as setRotorsPositions(P) leaves a machine, P being its rotors_position
JustPositioned(m) ==
    LET r == setRotorsPositions(m, rotors_position(m))
    IN  ~r.raised /\ r.m = m

\* text is made of uppercase letters only
UpperLetters(text) == \A i \in 1..Len(text) : text[i] \in 65..90

\* pairs of two distinct uppercase letters, no letter in two pairs
DisjointPairs(pairs) ==
    /\ \A i \in 1..Len(pairs) :
          /\ pairs[i][1] \in 65..90
          /\ pairs[i][2] \in 65..90
          /\ pairs[i][1] # pairs[i][2]
    /\ \A i, j \in 1..Len(pairs) :
          i # j => {pairs[i][1], pairs[i][2]} \cap {pairs[j][1], pairs[j][2]} = {}

\* no reflector, or one whose wiring is an involution
ReflectorInvolutive(m) ==
    m.ukw # None => \A c \in 65..90 : left(m.ukw, left(m.ukw, c)) = c

\* encode(text), setRotorsPositions(P), encode(result) gave text back
DecodedBack ==
    LET back == setRotorsPositions(machine, rotors_position(pre))
    IN  /\ ~back.raised
        /\ encode(back.m, last.out, FALSE) = Return(encode(back.m, last.out, FALSE).m, last.text)

----------------------------------------------------------------------------
(* C1 *)

----------------------------------------------------------------------------
(* C2 *)

\* the models of the installed rotors, left to right
Models(m) == [i \in 1..Len(m.rotors) |-> m.rotors[i].model]

\* a second machine of the same factory model, given m's rotor models,
\* rotors_position, reflector, entry wheel and plugboard by setRotors,
\* setRotorsPositions, setUKW, setETW and setPlugboard
Reconfigured(m) ==
    LET a == setRotors(Enigma(m.kind), Models(m)).m
        b == setRotorsPositions(a, rotors_position(m)).m
        c == IF m.ukw # None THEN setUKW(b, m.ukw.model).m ELSE b
        d == IF m.etw # None THEN setETW(c, m.etw.model).m ELSE c
    IN  setPlugboard(d, m.plugboard).m

\* the configuration C2 speaks of
Configuration(m) ==
    <<Models(m), rotors_position(m), m.ukw, m.etw, m.plugboard>>

\* C2: two machines with the same rotor models, rotors_position, reflector,
\* entry wheel and plugboard return the same output for the same text, however
\* each was brought there: the machine of the last encode and the machine
\* configured anew agree
C2_SameConfigurationSameOutput ==
    (last.op = "encode" /\ Configuration(Reconfigured(pre)) = Configuration(pre))
        => LET anew == encode(Reconfigured(pre), last.text, last.fmt)
           IN  anew.raised = last.raised /\ anew.out = last.out

----------------------------------------------------------------------------
(* C3 *)

\* "ADU" "ADV" "AEW" "BFX" "BFY"
VectorADT ==
    << <<65,68,85>>, <<65,68,86>>, <<65,69,87>>, <<66,70,88>>, <<66,70,89>> >>

\* "KDP" "KDQ" "KER" "LFS" "LFT" "LFU"
VectorKDO ==
    << <<75,68,80>>, <<75,68,81>>, <<75,69,82>>, <<76,70,83>>, <<76,70,84>>,
       <<76,70,85>> >>

\* "AAU" "AAV" "ABW" "ABX"
VectorAAT == << <<65,65,85>>, <<65,65,86>>, <<65,66,87>>, <<65,66,88>> >>

\* the bank holds the rotors `names`, was set to `string`, and `keys` letters
\* were encoded since: rotors_position is the entry of `vector` for that many
Follows(names, string, vector) ==
    (Models(machine) = names /\ start = string /\ keys \in 1..Len(vector))
        => rotors_position(machine) = vector[keys]

\* C3: rotors I, II, III set to ADT give ADU, ADV, AEW, BFX, BFY on five
\* successive one-letter encodes; rotors III, II, I set to KDO give KDP, KDQ,
\* KER, LFS, LFT, LFU on six; rotors I, II, III set to AAT give AAU, AAV, ABW,
\* ABX on four
C3_DoubleStepVectors ==
    /\ Follows(<<"I", "II", "III">>, <<65,68,84>>, VectorADT)
    /\ Follows(<<"III", "II", "I">>, <<75,68,79>>, VectorKDO)
    /\ Follows(<<"I", "II", "III">>, <<65,65,84>>, VectorAAT)

\* the sixth one-letter encode after KDO has left the bank at LFU
C3_Witness ==
    /\ Models(machine) = <<"III", "II", "I">>
    /\ start = <<75,68,79>>
    /\ keys = 6
    /\ Encoded /\ last.text = <<65>>
    /\ rotors_position(machine) = <<76,70,85>>
    /\ rotors_position(pre) = <<76,70,84>>

----------------------------------------------------------------------------
(* C4 *)

\* the last call encoded a text that is one letter
OneLetter ==
    Encoded /\ ~last.fmt /\ Len(last.text) = 1 /\ Len(Letters(last.text)) = 1

\* plugboard, signal path, plugboard, with the rotors as m has them
Through(m, c) == _applyPlugboard(m, _signalTravel(m, _applyPlugboard(m, c)))

\* m with the rightmost rotor set one position further
RightmostAdvanced(m) ==
    LET n == Len(m.rotors)
        p == rotors_position(m)
    IN  setRotorsPositions(m, [p EXCEPT ![n] = ((@ - 65 + 1) % 26) + 65]).m

----------------------------------------------------------------------------
(* C5 *)

\* the last call was setRotorsPositions with uppercase letters, one per rotor
WellFormedPositions ==
    /\ last.op = "setRotorsPositions"
    /\ UpperLetters(last.text)
    /\ Len(last.text) = Len(pre.rotors)

\* C5: setRotorsPositions(S), S uppercase letters, one per installed rotor,
\* succeeds in every state and rotors_position is S afterwards
C5_PositionRoundTrip ==
    WellFormedPositions => (~last.raised /\ rotors_position(machine) = last.text)

\* two rotors, one of them stepped past Z by an encode, were set to other positions
C5_Witness ==
    /\ WellFormedPositions
    /\ Len(last.text) = 2
    /\ rotors_position(pre) # last.text
    /\ \E i \in 1..2 : pre.rotors[i].position > 25 /\ pre.rotors[i].stepped
    /\ rotors_position(machine) = last.text

----------------------------------------------------------------------------
(* C6 *)

\* the last call was addRotor with a catalog name and one Latin letter, the
\* bank holding fewer rotors than the maximum
AddedWithRoom ==
    /\ last.op = "addRotor"
    /\ last.name \in DOMAIN rotors_map(pre.kind)
    /\ Len(last.text) = 1 /\ InStr(last.text, ascii_letters)
    /\ Len(pre.rotors) < max_rotors(pre.kind)

\* C6: such an addRotor succeeds, appends one rotor of that model as the
\* rightmost, leaves the installed rotors as they were, and the new rotor
\* reports the uppercase of p, its wiring shifted by that offset
C6_AddRotorAtPosition ==
    AddedWithRoom =>
        /\ ~last.raised
        /\ Len(machine.rotors) = Len(pre.rotors) + 1
        /\ SubSeq(machine.rotors, 1, Len(pre.rotors)) = pre.rotors
        /\ LET new == machine.rotors[Len(machine.rotors)]
               p   == Upper(last.text[1])
           IN  /\ new.model = last.name
               /\ position(new) = p
               /\ new.alphabet =
                    Rotate(UpperStr(rotors_map(pre.kind)[last.name].alphabet), -(p - 65))

----------------------------------------------------------------------------
(* C7 *)

\* C7: encode(text) returns what encode(text.upper()) returns from the same
\* state, and every letter of the input gives an uppercase letter; stated for
\* the plugboards of disjoint pairs of uppercase letters, which are among
\* "every plugboard"
C7_CaseInsensitive ==
    (Encoded /\ DisjointPairs(pre.plugboard)) =>
        /\ last.out = encode(pre, UpperStr(last.text), last.fmt).out
        /\ ~last.fmt =>
              \A i \in 1..Len(last.text) :
                  InStr(<<last.text[i]>>, ascii_letters) => last.out[i] \in 65..90

----------------------------------------------------------------------------
(* C8 *)

\* C8: with format_output false the output has the length of the input and
\* every character that is no letter stands unchanged at its index; with
\* format_output true the output holds nothing but the letters the letters of
\* the input gave, and the spaces between the groups
C8_NonLetters ==
    Encoded =>
        /\ ~last.fmt =>
              /\ Len(last.out) = Len(last.text)
              /\ \A i \in 1..Len(last.text) :
                    ~InStr(<<last.text[i]>>, ascii_letters) => last.out[i] = last.text[i]
        /\ last.fmt =>
              /\ \A j \in 1..Len(last.out) :
                    last.out[j] = 32 \/ InStr(<<last.out[j]>>, ascii_letters)
              /\ Len(Letters(last.out)) = Len(Letters(last.text))

\* "b C" was encoded without format: the space stayed, the letters changed
C8_Witness ==
    /\ Encoded /\ ~last.fmt
    /\ last.text = <<98,32,67>>
    /\ last.out[2] = 32
    /\ last.out[1] # 98 /\ last.out[3] # 67
    /\ Len(last.out) = 3

----------------------------------------------------------------------------
(* C9 *)

----------------------------------------------------------------------------
(* C10 *)

\* C10: encode on an empty bank raises for every text, returns nothing and
\* leaves the machine as it was
C10_EmptyBankRaises ==
    (last.op = "encode" /\ pre.rotors = <<>>) =>
        (last.raised /\ last.out = <<>> /\ machine = pre)

\* encode of a text was tried on a bank that is empty, the reflector being set
C10_Witness ==
    /\ last.op = "encode"
    /\ pre.rotors = <<>>
    /\ pre.ukw # None
    /\ last.text = <<49,50,32,33>>
    /\ last.raised

----------------------------------------------------------------------------
(* C11 *)

\* the catalog of reflectors of m is not empty and no reflector is set, or the
\* catalog of entry wheels is not empty and no entry wheel is set
MissingStator(m) ==
    \/ (DOMAIN ukw_map(m.kind) # {} /\ m.ukw = None)
    \/ (DOMAIN etw_map(m.kind) # {} /\ m.etw = None)

\* C11: encode on a machine that lacks a reflector or an entry wheel its
\* catalogs offer raises for every text, returns nothing, and leaves the rotor
\* positions (the whole machine) as they were
C11_MissingStatorRaises ==
    (last.op = "encode" /\ MissingStator(pre)) =>
        /\ last.raised
        /\ last.out = <<>>
        /\ rotors_position(machine) = rotors_position(pre)
        /\ machine = pre

\* encode of a text with letters was tried on a machine with rotors and a
\* reflector whose catalog offers an entry wheel that is not set
C11_Witness ==
    /\ last.op = "encode"
    /\ Len(pre.rotors) = 2
    /\ pre.ukw # None
    /\ DOMAIN etw_map(pre.kind) # {} /\ pre.etw = None
    /\ Len(Letters(last.text)) = 7
    /\ last.raised

----------------------------------------------------------------------------
(* C12 *)

\* C12: addRotor with a name that is in no rotor catalog of the machine raises
\* and leaves the bank as it was: as many rotors, in the same order, of the
\* same models, at the same positions
C12_UnknownRotorRaises ==
    (last.op = "addRotor" /\ last.name \notin DOMAIN rotors_map(pre.kind)) =>
        /\ last.raised
        /\ Len(machine.rotors) = Len(pre.rotors)
        /\ Models(machine) = Models(pre)
        /\ rotors_position(machine) = rotors_position(pre)
        /\ machine.rotors = pre.rotors

\* addRotor("ASD") was tried on a bank of two rotors that an encode had moved
C12_Witness ==
    /\ last.op = "addRotor"
    /\ last.name = "ASD"
    /\ last.text = <<65>>
    /\ Len(pre.rotors) = 2
    /\ keys = 1
    /\ last.raised

----------------------------------------------------------------------------
(* C13 *)

\* C13: the bank never holds more rotors than the maximum of the machine, and
\* addRotor raises whenever the bank already holds that many
C13_NeverAboveMaximum ==
    /\ Len(machine.rotors) <= max_rotors(machine.kind)
    /\ (last.op = "addRotor" /\ Len(pre.rotors) = max_rotors(pre.kind)) => last.raised

----------------------------------------------------------------------------
(* C14 *)

\* the Latin letters, of both cases
LatinLetters == (65..90) \cup (97..122)

\* C14: after a setPlugboard that returned, the plugboard is the given pairs
\* in the given order, whatever pairs it held before, and with no pairs given
\* it leaves every letter as it is
C14_PlugboardReplaced ==
    (last.op = "setPlugboard" /\ ~last.raised) =>
        /\ plugboard(machine) = last.list
        /\ \A i \in 1..Len(machine.plugboard) : InSeq(plugboard(machine)[i], last.list)
        /\ last.list = <<>> =>
              \A c \in LatinLetters : _applyPlugboard(machine, c) = c

\* a plugboard of ten pairs was replaced by "ZY" "BX"
C14_Witness ==
    /\ last.op = "setPlugboard" /\ ~last.raised
    /\ Len(pre.plugboard) = 10
    /\ last.list = << <<90,89>>, <<66,88>> >>
    /\ plugboard(machine) = << <<90,89>>, <<66,88>> >>

----------------------------------------------------------------------------
(* C15 *)

\* C15: setPlugboard with more than 10 pairs raises and leaves the plugboard
\* as it was; with exactly 10 pairs of two distinct uppercase letters, no
\* letter in two pairs, it returns and the plugboard is those pairs
C15_TenPlugsAtMost ==
    last.op = "setPlugboard" =>
        /\ Len(last.list) > 10 => (last.raised /\ machine.plugboard = pre.plugboard)
        /\ (Len(last.list) = 10 /\ DisjointPairs(last.list)) =>
              (~last.raised /\ plugboard(machine) = last.list)

\* eleven pairs were refused on a machine whose plugboard held ten
C15_Witness ==
    /\ last.op = "setPlugboard"
    /\ Len(last.list) = 11
    /\ last.raised
    /\ Len(pre.plugboard) = 10
    /\ plugboard(machine) = TenPlugs

----------------------------------------------------------------------------
(* C16 *)

\* pair is two distinct Latin letters
TwoDistinctLetters(pair) ==
    /\ Len(pair) = 2
    /\ pair[1] \in LatinLetters /\ pair[2] \in LatinLetters
    /\ pair[1] # pair[2]

\* C16: setPlugboard raises and leaves the plugboard as it was if one of the
\* pairs is not two distinct letters: one or three characters, the same letter
\* twice, or a character that is no letter
C16_InvalidPlugRaises ==
    (/\ last.op = "setPlugboard"
     /\ \E i \in 1..Len(last.list) : ~TwoDistinctLetters(last.list[i]))
        => (last.raised /\ machine.plugboard = pre.plugboard)

----------------------------------------------------------------------------
(* C17 *)

\* C17: with a plugboard of at most 10 pairs of two distinct uppercase
\* letters, no letter in two pairs, the plugboard applied twice gives every
\* letter back, those of a pair and those of none
C17_PlugboardSelfInverse ==
    (Len(machine.plugboard) <= 10 /\ DisjointPairs(machine.plugboard)) =>
        \A c \in LatinLetters :
            _applyPlugboard(machine, _applyPlugboard(machine, c)) = c

\* a plugboard of ten pairs that leads A to B, T to S and leaves U alone
C17_Witness ==
    /\ Len(machine.plugboard) = 10 /\ DisjointPairs(machine.plugboard)
    /\ _applyPlugboard(machine, 65) = 66
    /\ _applyPlugboard(machine, 84) = 83
    /\ _applyPlugboard(machine, 85) = 85

----------------------------------------------------------------------------
(* C18 *)

\* wiring holds each of the 26 uppercase letters once
IsPermutation(wiring) ==
    Len(wiring) = 26 /\ \A c \in 65..90 : \E i \in 1..26 : wiring[i] = c

\* wiring leads every letter back to itself in two steps
IsInvolution(wiring) == \A i \in 1..26 : wiring[wiring[i] - 64] = 64 + i

\* C18: setUKW of a reflector whose wiring in the catalog is a permutation of
\* the alphabet but no involution raises, and the reflector of the machine is
\* what it was
C18_NonInvolutiveReflectorRaises ==
    (/\ last.op = "setUKW"
     /\ last.name \in DOMAIN ukw_map(pre.kind)
     /\ IsPermutation(ukw_map(pre.kind)[last.name].alphabet)
     /\ ~IsInvolution(ukw_map(pre.kind)[last.name].alphabet))
        => (last.raised /\ machine.ukw = pre.ukw)

----------------------------------------------------------------------------
(* C19 *)

\* C19: the machine of the last keypress and a second machine, given the same
\* rotor models in the same order and set by setRotorsPositions to the
\* positions the first reported before the keypress, report the same
\* rotors_position after the keypress, whatever calls brought the first there
C19_SteppingDeterminism ==
    (/\ Encoded /\ Len(Letters(last.text)) = 1
     /\ Models(Reconfigured(pre)) = Models(pre)
     /\ rotors_position(Reconfigured(pre)) = rotors_position(pre))
        => rotors_position(encode(Reconfigured(pre), last.text, last.fmt).m)
              = rotors_position(machine)

----------------------------------------------------------------------------
(* C20 *)

\* C20: setRotorsPositions(pos) raises when pos has not one character for
\* each installed rotor (the empty string on a bank that is not empty, a
\* string that is too long) and when a character of pos is no Latin letter
C20_BadPositionsRaise ==
    (/\ last.op = "setRotorsPositions"
     /\ \/ Len(last.text) # Len(pre.rotors)
        \/ \E i \in 1..Len(last.text) : last.text[i] \notin LatinLetters)
        => last.raised

\* the empty string was refused on a bank of two rotors that an encode had moved
C20_Witness ==
    /\ last.op = "setRotorsPositions"
    /\ last.text = <<>>
    /\ Len(pre.rotors) = 2
    /\ keys = 1
    /\ last.raised
    /\ machine = pre

----------------------------------------------------------------------------
(* C21 *)

----------------------------------------------------------------------------
(* C22 *)

\* the wiring of rotor `now` is the wiring of rotor `was`, turned by as many
\* places as the offset has moved: the base wiring is the same
SameBaseWiring(was, now) ==
    now.alphabet = Rotate(was.alphabet, -(now.position - was.position))

\* C22: an encode, whether it returns or raises, leaves the installed rotor
\* models and their order, the base wirings and the notches of the rotors, the
\* reflector, the entry wheel, the plugboard and the catalogs as they were
C22_EncodeMovesRotorsOnly ==
    last.op = "encode" =>
        /\ Models(machine) = Models(pre)
        /\ \A i \in 1..Len(pre.rotors) :
              /\ SameBaseWiring(pre.rotors[i], machine.rotors[i])
              /\ machine.rotors[i].notch = pre.rotors[i].notch
        /\ machine.ukw = pre.ukw
        /\ machine.etw = pre.etw
        /\ machine.plugboard = pre.plugboard
        /\ machine.kind = pre.kind

\* seven letters were encoded by a Rocket with plugs, an entry wheel and a
\* reflector, and both its rotors moved
C22_Witness ==
    /\ Encoded
    /\ Len(Letters(last.text)) = 7
    /\ pre.kind = "Rocket"
    /\ pre.plugboard # <<>>
    /\ \A i \in 1..2 : rotors_position(machine)[i] # rotors_position(pre)[i]
    /\ machine.etw = pre.etw /\ machine.etw # None

----------------------------------------------------------------------------
(* C23 *)

\* C23: the rightmost rotor advances by exactly one position for every letter
\* that is encoded, whatever the number of rotors and their notches: after an
\* encode its offset is as many steps further as the text has letters, and its
\* reported position that many letters further round the alphabet
C23_RightmostStepsOnce ==
    Encoded =>
        LET n == Len(pre.rotors)
            k == Len(Letters(last.text))
        IN  /\ machine.rotors[n].position = pre.rotors[n].position + k
            /\ position(machine.rotors[n])
                  = ((position(pre.rotors[n]) - 65 + k) % 26) + 65

\* one letter was encoded by three rotors, the rightmost left its notch and
\* the middle one advanced: the rightmost is one position further
C23_Witness ==
    /\ OneLetter
    /\ Len(pre.rotors) = 3
    /\ position(pre.rotors[3]) - 65 \in {pre.rotors[3].notch[1]}
    /\ position(machine.rotors[2]) # position(pre.rotors[2])
    /\ machine.rotors[3].position = pre.rotors[3].position + 1

----------------------------------------------------------------------------
(* C24 *)

\* the reported position of rotor r is one of its notch letters
AtNotchLetter(r) == \E j \in 1..Len(r.notch) : position(r) = r.notch[j] + 65

\* C24: after a keypress hit_notch of the rightmost rotor, which that keypress
\* stepped, is true exactly when its reported position before the keypress
\* was one of its notch letters; its left neighbour advances on the keypress
\* whenever that is so, and otherwise only if the neighbour itself was at a
\* notch; after any number of keypresses since the positions were set
C24_NotchCarry ==
    (Encoded /\ Len(Letters(last.text)) = 1 /\ Len(pre.rotors) >= 2) =>
        LET n        == Len(pre.rotors)
            advanced == machine.rotors[n - 1].position # pre.rotors[n - 1].position
        IN  /\ hit_notch(machine.rotors[n]) <=> AtNotchLetter(pre.rotors[n])
            /\ AtNotchLetter(pre.rotors[n]) => advanced
            /\ advanced => (AtNotchLetter(pre.rotors[n]) \/ AtNotchLetter(pre.rotors[n - 1]))

----------------------------------------------------------------------------
(* C25 *)

\* C25: on a keypress every rotor but the rightmost that reports one of its
\* notch letters and was not stepped before its turn in the scan is stepped
\* by one; stated for the rotors between the leftmost and the rightmost, which
\* nothing steps before their turn unless their right neighbour leaves a notch
C25_DoubleStep ==
    (Encoded /\ Len(Letters(last.text)) = 1 /\ Len(pre.rotors) >= 3) =>
        \A i \in 2..(Len(pre.rotors) - 1) :
            AtNotchLetter(pre.rotors[i]) =>
                machine.rotors[i].position > pre.rotors[i].position

----------------------------------------------------------------------------
(* C26 *)

\* C26: the offset a rotor stores is always in 0..25, whatever steps and
\* position assignments it has gone through
C26_OffsetNormalised ==
    \A i \in 1..Len(machine.rotors) : machine.rotors[i].position \in 0..25

----------------------------------------------------------------------------
(* C27 *)

\* right undoes left and left undoes right on the 26 letters
Inverse(w) ==
    \A c \in 65..90 : right(w, left(w, c)) = c /\ left(w, right(w, c)) = c

\* the rotors and stators of the catalog of a model, the rotors at every
\* offset a position assignment or a number of steps gives them
CatalogInverse(kind) ==
    /\ \A name \in DOMAIN rotors_map(kind) : \A o \in 0..25 :
          LET entry == rotors_map(kind)[name]
              r     == Rotor(entry.alphabet, entry.notch, <<65>>, name)
          IN  Inverse(setPosition(r, 65 + o)) /\ Inverse(step(r, o))
    /\ \A name \in DOMAIN ukw_map(kind) : Inverse(Stator(ukw_map(kind)[name].alphabet, name))
    /\ \A name \in DOMAIN etw_map(kind) : Inverse(Stator(etw_map(kind)[name].alphabet, name))

\* C27: for every rotor and stator of the catalogs, and for every rotor and
\* stator a machine holds at the offsets its calls have brought them to,
\* right is the exact inverse of left at that offset, on all 26 letters
C27_RightInvertsLeft ==
    /\ last.op = "__init__" => CatalogInverse(machine.kind)
    /\ \A i \in 1..Len(machine.rotors) : Inverse(machine.rotors[i])
    /\ machine.ukw # None => Inverse(machine.ukw)
    /\ machine.etw # None => Inverse(machine.etw)

\* seven letters were encoded by a Rocket with its entry wheel and reflector,
\* and a rotor has gone past a full turn
C27_Witness ==
    /\ Encoded
    /\ Len(Letters(last.text)) = 7
    /\ machine.etw # None /\ machine.ukw # None
    /\ \E i \in 1..Len(machine.rotors) :
          machine.rotors[i].position > 25 /\ Inverse(machine.rotors[i])

----------------------------------------------------------------------------
(* C28 *)

\* C28: for a rotor of the bank with catalog wiring W at offset o, left of
\* the letter of index x is the letter of index (W[(x + o) mod 26] - o) mod 26
C28_LeftShiftsBack ==
    \A i \in 1..Len(machine.rotors) :
        LET r == machine.rotors[i]
            W == rotors_map(machine.kind)[r.model].alphabet
            o == r.position % 26
        IN  \A x \in 0..25 :
                left(r, 65 + x) = ((W[((x + o) % 26) + 1] - 65 - o) % 26) + 65

----------------------------------------------------------------------------
(* C29 *)

\* the path of the claim written out stage by stage for a bank of one, two or
\* three rotors, every stage on the wheels as m has them
PathInOrder(m, c) ==
    LET n  == Len(m.rotors)
        R  == m.rotors
        s1 == _applyPlugboard(m, c)
        s2 == IF m.etw # None THEN left(m.etw, s1) ELSE s1
        s3 == CASE n = 1 -> left(R[1], s2)
                [] n = 2 -> left(R[1], left(R[2], s2))
                [] n = 3 -> left(R[1], left(R[2], left(R[3], s2)))
        s4 == IF m.ukw # None THEN left(m.ukw, s3) ELSE s3
        s5 == CASE n = 1 -> right(R[1], s4)
                [] n = 2 -> right(R[2], right(R[1], s4))
                [] n = 3 -> right(R[3], right(R[2], right(R[1], s4)))
        s6 == IF m.etw # None THEN right(m.etw, s5) ELSE s5
    IN  _applyPlugboard(m, s6)

\* C29: the output for one letter is plugboard, entry wheel forward if set,
\* the rotors forward from the rightmost to the leftmost, the reflector if
\* set, the rotors backward from the leftmost to the rightmost, entry wheel
\* backward if set, plugboard, all on one set of offsets (those of the bank
\* once the rightmost rotor has stepped)
C29_SignalPathOrder ==
    (OneLetter /\ Len(pre.rotors) \in 1..3) =>
        last.out = <<PathInOrder(RightmostAdvanced(pre), last.text[1])>>

\* a Rocket with two rotors, entry wheel, reflector and a plug on the letter
\* typed has enciphered one letter
C29_Witness ==
    /\ OneLetter
    /\ pre.kind = "Rocket"
    /\ Len(pre.rotors) = 2
    /\ pre.etw # None /\ pre.ukw # None
    /\ _applyPlugboard(pre, last.text[1]) # last.text[1]
    /\ last.out = <<PathInOrder(RightmostAdvanced(pre), last.text[1])>>

----------------------------------------------------------------------------
(* C30 *)

\* some character of the text is no letter
HasNonLetter(text) == Len(Letters(text)) < Len(text)

\* C30: an encode leaves the rotors where the encode of the letters of its
\* text alone leaves them, and where they were when the text has no letter,
\* whatever format_output is
C30_NonLettersDoNotAdvance ==
    last.op = "encode" =>
        /\ machine.rotors = encode(pre, Letters(last.text), last.fmt).m.rotors
        /\ rotors_position(machine) =
               rotors_position(encode(pre, Letters(last.text), last.fmt).m)
        /\ Letters(last.text) = <<>> =>
               /\ rotors_position(machine) = rotors_position(pre)
               /\ machine.rotors = pre.rotors

\* a text of letters and other characters was encoded with format_output and
\* the rotors moved as for its letters alone
C30_Witness ==
    /\ Encoded
    /\ last.fmt
    /\ HasNonLetter(last.text)
    /\ Len(Letters(last.text)) = 2
    /\ rotors_position(machine) # rotors_position(pre)
    /\ rotors_position(machine) =
           rotors_position(encode(pre, Letters(last.text), last.fmt).m)

----------------------------------------------------------------------------
(* C31 *)

\* C31: in the keypress of one letter every rotor advances by zero or one
\* position; a rotor its right neighbour's notch has carried forward is not
\* stepped again by its own notch in that keypress
C31_AtMostOneStep ==
    (Encoded /\ Len(Letters(last.text)) = 1) =>
        /\ Len(machine.rotors) = Len(pre.rotors)
        /\ \A i \in 1..Len(pre.rotors) :
              machine.rotors[i].position - pre.rotors[i].position \in {0, 1}

\* the rightmost of three rotors left its notch, which carried the middle
\* rotor onto its own notch letter, and the middle rotor advanced by one
C31_Witness ==
    /\ Encoded
    /\ Len(Letters(last.text)) = 1
    /\ Len(pre.rotors) = 3
    /\ hit_notch(machine.rotors[3])
    /\ AtNotchLetter(machine.rotors[2])
    /\ machine.rotors[2].position = pre.rotors[2].position + 1

----------------------------------------------------------------------------
(* C32 *)

\* the wiring is an involution of the 26 letters that fixes none
NoFixedPointInvolution(wiring) ==
    /\ Len(wiring) = 26
    /\ \A i \in 1..26 : wiring[i] \in 65..90 /\ wiring[i] # 64 + i
    /\ \A i \in 1..26 : wiring[wiring[i] - 64] = 64 + i

\* every reflector of the catalogs of the factory is such a wiring
CatalogReflectorsReciprocal ==
    \A kind \in FactoryModels : \A name \in DOMAIN ukw_map(kind) :
        NoFixedPointInvolution(ukw_map(kind)[name].alphabet)

\* C32: every reflector of the built-in catalogs is an involution without
\* fixed points, and a machine with at least one rotor, such a reflector and a
\* plugboard of disjoint pairs of uppercase letters, in whatever state its
\* calls have brought it to, encodes every uppercase letter as another letter
C32_NoLetterToItself ==
    /\ last.op = "__init__" => CatalogReflectorsReciprocal
    /\ (/\ Len(machine.rotors) >= 1
        /\ machine.ukw # None
        /\ NoFixedPointInvolution(machine.ukw.alphabet)
        /\ DisjointPairs(machine.plugboard)) =>
           \A c \in 65..90 :
               LET r == encode(machine, <<c>>, FALSE)
               IN  ~r.raised => (Len(r.out) = 1 /\ r.out[1] \in 65..90 /\ r.out[1] # c)

\* a Rocket with entry wheel, reflector, a plugboard of two pairs and rotors
\* that seven keypresses have moved encodes every uppercase letter, none as itself
C32_Witness ==
    /\ Encoded
    /\ Len(Letters(last.text)) = 7
    /\ machine.kind = "Rocket"
    /\ Len(machine.plugboard) = 2 /\ DisjointPairs(machine.plugboard)
    /\ NoFixedPointInvolution(machine.ukw.alphabet)
    /\ \A c \in 65..90 :
          LET r == encode(machine, <<c>>, FALSE)
          IN  ~r.raised /\ r.out # <<c>>

----------------------------------------------------------------------------
(* C33 *)

\* C33: a machine of a model with no reflector in its catalog, with a
\* plugboard of disjoint pairs of uppercase letters or none, returns the text
\* it is given with its letters in uppercase and nothing else changed
C33_IdentityWithoutReflector ==
    (/\ Encoded
     /\ ~last.fmt
     /\ DOMAIN ukw_map(pre.kind) = {}
     /\ pre.ukw = None
     /\ DisjointPairs(pre.plugboard)) =>
        last.out = UpperStr(last.text)

----------------------------------------------------------------------------
(* C34 *)

\* C34: a setRotorsPositions that raises, for a wrong length or for a
\* character that is no letter, leaves every rotor where it was
C34_FailedPositionsChangeNothing ==
    (last.op = "setRotorsPositions" /\ last.raised) =>
        /\ rotors_position(machine) = rotors_position(pre)
        /\ machine.rotors = pre.rotors

----------------------------------------------------------------------------
(* C35 *)

\* the pairs of the plugboard, by index, that hold the letter c
PairsWith(m, c) == {i \in 1..Len(m.plugboard) : InSeq(c, m.plugboard[i])}

\* the other end of pair p seen from c
OtherEnd(p, c) == IF c = p[1] THEN p[2] ELSE p[1]

\* C35: the plugboard swaps a letter with the other end of the first pair,
\* in the order given to setPlugboard, that holds the letter, whatever later
\* pairs hold it too, and leaves a letter that no pair holds as it is
C35_FirstPairWins ==
    \A c \in LatinLetters :
        IF PairsWith(machine, c) = {} THEN _applyPlugboard(machine, c) = c
        ELSE LET first == CHOOSE i \in PairsWith(machine, c) :
                              \A j \in PairsWith(machine, c) : i <= j
             IN  _applyPlugboard(machine, c) = OtherEnd(machine.plugboard[first], c)

\* setPlugboard has installed pairs two of which hold one letter with
\* different other ends, and the swap of that letter is that of the earlier pair
C35_Witness ==
    /\ last.op = "setPlugboard" /\ ~last.raised
    /\ machine.plugboard = last.list
    /\ \E c \in LatinLetters : \E i, j \in PairsWith(machine, c) :
          /\ i < j
          /\ \A k \in PairsWith(machine, c) : i <= k
          /\ OtherEnd(machine.plugboard[i], c) # OtherEnd(machine.plugboard[j], c)
          /\ _applyPlugboard(machine, c) = OtherEnd(machine.plugboard[i], c)

====
